---- MODULE Spec2Model ----
(***************************************************************************)
(* A model of the regular-expression engine of regeng.py.                  *)
(*                                                                         *)
(* A Python str is modelled as a sequence of code points (ord/chr are the  *)
(* identity on that representation), a list of str as a sequence of such   *)
(* sequences, and the State objects of an automaton as an arena: a         *)
(* sequence of records indexed by allocation order, an index standing for  *)
(* the object's identity.  Python's 0-based position i is i + 1 here.      *)
(***************************************************************************)
EXTENDS Integers, Sequences, FiniteSets, TLC

(* ---------------- characters used by the engine ---------------- *)
SOH == 1
LPAREN == 40
RPAREN == 41
STAR == 42
PLUS == 43
MINUS == 45
DOT == 46
QMARK == 63
LBRACK == 91
BSLASH == 92
RBRACK == 93
PIPE == 124
CH_a == 97
CH_b == 98
CH_c == 99
CH_d == 100
CH_s == 115
CH_w == 119
CH_x == 120
CH_y == 121
CH_z == 122
CH_A == 65
CH_Z == 90
CH_0 == 48
CH_9 == 57
CH_US == 95
CH_SP == 32
CH_TAB == 9
CH_LF == 10
CH_VT == 11
CH_FF == 12
CH_CR == 13

(* ---------------- Python helpers ---------------- *)

\* the outcome of a call: a value, or the exception that left it
Return(v) == [exc |-> "none", val |-> v]
Raise(e) == [exc |-> e, val |-> <<>>]

\* str < str : lexicographic order on code points
RECURSIVE StrLess(_, _)
StrLess(s, t) ==
    IF t = <<>> THEN FALSE
    ELSE IF s = <<>> THEN TRUE
    ELSE IF Head(s) # Head(t) THEN Head(s) < Head(t)
    ELSE StrLess(Tail(s), Tail(t))

\* sorted(list(S)) for a set of str
RECURSIVE sorted(_)
sorted(S) ==
    IF S = {} THEN <<>>
    ELSE LET m == CHOOSE x \in S : \A y \in S \ {x} : StrLess(x, y)
         IN <<m>> \o sorted(S \ {m})

\* "".join(list)
RECURSIVE join(_)
join(l) == IF l = <<>> THEN <<>> ELSE Head(l) \o join(Tail(l))

\* list.pop(): the list without its last element
Pop(l) == SubSeq(l, 1, Len(l) - 1)
Top(l) == l[Len(l)]

(* ---------------- RegexParser ---------------- *)

_precedence(op) ==
    CASE op = <<PIPE>> -> 0
      [] op = <<DOT>> -> 1
      [] op = <<QMARK>> -> 2
      [] op = <<STAR>> -> 2
      [] op = <<PLUS>> -> 2

\* the while loop of make_range: char_set after scanning chars from i
RECURSIVE make_range_scan(_, _, _)
make_range_scan(chars, i, char_set) ==
    IF i > Len(chars) THEN Return(char_set)
    ELSE IF i + 2 <= Len(chars) /\ chars[i + 1] = <<MINUS>> THEN
        LET start == chars[i]
            end == chars[i + 2]
        IN IF Len(start) # 1 \/ Len(end) # 1 THEN Raise("TypeError")
           ELSE make_range_scan(chars, i + 3,
                    char_set \cup {<<s>> : s \in start[1] .. end[1]})
    ELSE make_range_scan(chars, i + 1, char_set \cup {chars[i]})

\* out.append('|'); out.append(char) for each char of char_list[1:]
RECURSIVE make_range_rest(_)
make_range_rest(char_list) ==
    IF char_list = <<>> THEN <<>>
    ELSE <<<<PIPE>>, Head(char_list)>> \o make_range_rest(Tail(char_list))

make_range(chars) ==
    LET scan == make_range_scan(chars, 1, {})
    IN IF scan.exc # "none" THEN scan
       ELSE LET char_list == sorted(scan.val)
            IN Return(<<<<LPAREN>>>>
                      \o (IF char_list # <<>>
                          THEN <<Head(char_list)>> \o make_range_rest(Tail(char_list))
                          ELSE <<>>)
                      \o <<<<RPAREN>>>>)

MetaChars == {DOT, MINUS, PLUS, STAR, QMARK, LPAREN, RPAREN, LBRACK, RBRACK, PIPE}

\* _expand_alias that returns a metacharacter without its SOH mark
_expand_alias_unmarked(char) == <<<<char>>>>

_expand_alias(char) ==
    CASE char = CH_d -> make_range(<<<<CH_0>>, <<MINUS>>, <<CH_9>>>>).val
      [] char = CH_w -> make_range(<<<<CH_a>>, <<MINUS>>, <<CH_z>>,
                                     <<CH_A>>, <<MINUS>>, <<CH_Z>>,
                                     <<CH_0>>, <<MINUS>>, <<CH_9>>,
                                     <<CH_US>>>>).val
      [] char = CH_s -> make_range(<<<<CH_SP>>, <<CH_TAB>>, <<CH_LF>>,
                                     <<CH_CR>>, <<CH_FF>>, <<CH_VT>>>>).val
      [] char \in MetaChars -> <<<<SOH, char>>>>
      [] OTHER -> <<<<char>>>>

\* the characters before which no concatenation operator is inserted
NoConcat == {STAR, QMARK, PLUS, RPAREN, PIPE}

\* for char in alias_expansion: if char not in ['(', ')', '|']: chars.append(char)
RECURSIVE class_alias(_)
class_alias(alias_expansion) ==
    IF alias_expansion = <<>> THEN <<>>
    ELSE (IF Head(alias_expansion) \notin {<<LPAREN>>, <<RPAREN>>, <<PIPE>>}
          THEN <<Head(alias_expansion)>> ELSE <<>>)
         \o class_alias(Tail(alias_expansion))

\* the inner while loop of pre_process: collects chars until ']' or the end
RECURSIVE class_scan(_, _, _)
class_scan(expr, i, chars) ==
    IF ~(i <= Len(expr) /\ expr[i] # RBRACK) THEN [i |-> i, chars |-> chars]
    ELSE IF i < Len(expr) /\ expr[i] = BSLASH THEN
        class_scan(expr, i + 2, chars \o class_alias(_expand_alias(expr[i + 1])))
    ELSE class_scan(expr, i + 1, Append(chars, <<expr[i]>>))

\* the outer while loop of pre_process
RECURSIVE pre_process_loop(_, _, _)
pre_process_loop(expr, i, out) ==
    IF i > Len(expr) THEN Return(out)
    ELSE IF i < Len(expr) /\ expr[i] = BSLASH THEN
        LET out1 == out \o _expand_alias(expr[i + 1])
            j == i + 2
        IN pre_process_loop(expr, j,
               IF j <= Len(expr) /\ expr[j] \notin NoConcat
               THEN Append(out1, <<DOT>>) ELSE out1)
    ELSE IF expr[i] = LBRACK THEN
        LET scan == class_scan(expr, i + 1, <<>>)
            j == IF scan.i <= Len(expr) THEN scan.i + 1 ELSE scan.i
            rng == make_range(scan.chars)
        IN IF rng.exc # "none" THEN rng
           ELSE pre_process_loop(expr, j,
                    IF j <= Len(expr) /\ expr[j] \notin NoConcat
                    THEN Append(out \o rng.val, <<DOT>>) ELSE out \o rng.val)
    ELSE
        LET out1 == Append(out, <<expr[i]>>)
        IN IF expr[i] \in {LPAREN, PIPE} THEN pre_process_loop(expr, i + 1, out1)
           ELSE IF i < Len(expr) /\ expr[i + 1] \notin (NoConcat \cup {RBRACK})
                THEN pre_process_loop(expr, i + 1, Append(out1, <<DOT>>))
                ELSE pre_process_loop(expr, i + 1, out1)

pre_process(expr) == pre_process_loop(expr, 1, <<>>)

\* while stack[-1] != '(': out.append(stack.pop())
RECURSIVE pop_to_paren(_, _)
pop_to_paren(out, stack) ==
    IF stack = <<>> THEN Raise("IndexError")
    ELSE IF Top(stack) = <<LPAREN>> THEN Return([out |-> out, stack |-> stack])
    ELSE pop_to_paren(Append(out, Top(stack)), Pop(stack))

\* while len(stack) > 0: break at '(' or at a lower precedence, else pop
RECURSIVE pop_operators(_, _, _)
pop_operators(symb, out, stack) ==
    IF stack = <<>> THEN [out |-> out, stack |-> stack]
    ELSE IF Top(stack) = <<LPAREN>> THEN [out |-> out, stack |-> stack]
    ELSE IF _precedence(symb) > _precedence(Top(stack)) THEN [out |-> out, stack |-> stack]
    ELSE pop_operators(symb, Append(out, Top(stack)), Pop(stack))

\* while len(stack) > 0: out.append(stack.pop())
RECURSIVE pop_all(_, _)
pop_all(out, stack) ==
    IF stack = <<>> THEN out ELSE pop_all(Append(out, Top(stack)), Pop(stack))

Operators == {<<PLUS>>, <<STAR>>, <<QMARK>>, <<DOT>>, <<PIPE>>}

RECURSIVE to_posfix_loop(_, _, _, _)
to_posfix_loop(expr, k, out, stack) ==
    IF k > Len(expr) THEN Return(join(pop_all(out, stack)))
    ELSE LET symb == expr[k] IN
        IF symb = <<LPAREN>> THEN to_posfix_loop(expr, k + 1, out, Append(stack, symb))
        ELSE IF symb = <<RPAREN>> THEN
            LET r == pop_to_paren(out, stack)
            IN IF r.exc # "none" THEN Raise("SystemExit")
               ELSE to_posfix_loop(expr, k + 1, r.val.out, Pop(r.val.stack))
        ELSE IF symb \in Operators THEN
            LET r == pop_operators(symb, out, stack)
            IN to_posfix_loop(expr, k + 1, r.out, Append(r.stack, symb))
        ELSE to_posfix_loop(expr, k + 1, Append(out, symb), stack)

to_posfix(expr) == to_posfix_loop(expr, 1, <<>>, <<>>)

(* ---------------- State and NFA ---------------- *)

\* State(accept): transition is a dict symbol -> State, epsilon_transitions a list
State(accept) == [accept |-> accept, transition |-> <<>>, epsilon_transitions |-> <<>>]

\* NFA(start, end)
NFA(start, end) == [start |-> start, end |-> end]

\* self.epsilon_transitions.append(to), self an index of the arena
add_epsilon_transition(heap, self, to) ==
    [heap EXCEPT ![self].epsilon_transitions = Append(@, to)]

\* self.transition[symbol] = to
add_transition(heap, self, to, symbol) ==
    LET old == heap[self].transition
    IN [heap EXCEPT ![self].transition =
            [c \in (DOMAIN old) \cup {symbol} |-> IF c = symbol THEN to ELSE old[c]]]

set_accept(heap, self, v) == [heap EXCEPT ![self].accept = v]

\* every combinator returns the arena after its allocations and edge
\* insertions together with the fragment it returns
from_epsilon(heap) ==
    LET start == Len(heap) + 1
        end == Len(heap) + 2
        h1 == heap \o <<State(FALSE), State(TRUE)>>
    IN [heap |-> add_epsilon_transition(h1, start, end), nfa |-> NFA(start, end)]

from_symbol(heap, symbol) ==
    LET start == Len(heap) + 1
        end == Len(heap) + 2
        h1 == heap \o <<State(FALSE), State(TRUE)>>
    IN [heap |-> add_transition(h1, start, end, symbol), nfa |-> NFA(start, end)]

\* concatenate that leaves the accept flag of first.end set
concatenate_keep_accept(heap, first, second) ==
    [heap |-> add_epsilon_transition(heap, first.end, second.start),
     nfa |-> NFA(first.start, second.end)]

concatenate(heap, first, second) ==
    LET h1 == add_epsilon_transition(heap, first.end, second.start)
    IN [heap |-> set_accept(h1, first.end, FALSE), nfa |-> NFA(first.start, second.end)]

union(heap, first, second) ==
    LET start == Len(heap) + 1
        end == Len(heap) + 2
        h1 == heap \o <<State(FALSE), State(TRUE)>>
        h2 == add_epsilon_transition(h1, start, first.start)
        h3 == add_epsilon_transition(h2, start, second.start)
        h4 == set_accept(add_epsilon_transition(h3, first.end, end), first.end, FALSE)
        h5 == set_accept(add_epsilon_transition(h4, second.end, end), second.end, FALSE)
    IN [heap |-> h5, nfa |-> NFA(start, end)]

closure(heap, nfa) ==
    LET start == Len(heap) + 1
        end == Len(heap) + 2
        h1 == heap \o <<State(FALSE), State(TRUE)>>
        h2 == add_epsilon_transition(h1, start, nfa.start)
        h3 == add_epsilon_transition(h2, start, end)
        h4 == add_epsilon_transition(h3, nfa.end, nfa.start)
        h5 == add_epsilon_transition(h4, nfa.end, end)
    IN [heap |-> set_accept(h5, nfa.end, FALSE), nfa |-> NFA(start, end)]

\* one_or_more with the skip edge of closure
one_or_more_skip(heap, nfa) == closure(heap, nfa)

one_or_more(heap, nfa) ==
    LET start == Len(heap) + 1
        end == Len(heap) + 2
        h1 == heap \o <<State(FALSE), State(TRUE)>>
        h2 == add_epsilon_transition(h1, start, nfa.start)
        h3 == add_epsilon_transition(h2, nfa.end, nfa.start)
        h4 == add_epsilon_transition(h3, nfa.end, end)
    IN [heap |-> set_accept(h4, nfa.end, FALSE), nfa |-> NFA(start, end)]

zero_or_one(heap, nfa) ==
    LET start == Len(heap) + 1
        end == Len(heap) + 2
        h1 == heap \o <<State(FALSE), State(TRUE)>>
        h2 == add_epsilon_transition(h1, start, nfa.start)
        h3 == add_epsilon_transition(h2, start, end)
        h4 == add_epsilon_transition(h3, nfa.end, end)
    IN [heap |-> set_accept(h4, nfa.end, FALSE), nfa |-> NFA(start, end)]

\* one iteration of the while loop of from_posfix on the symbol at i: the
\* next i, the arena and the stack of NFA fragments, or the IndexError of
\* a pop from the empty stack
from_posfix_step(posfix_expr, i, heap, stack) ==
    LET symb == posfix_expr[i] IN
    IF symb = SOH /\ i + 1 <= Len(posfix_expr) THEN
        LET r == from_symbol(heap, posfix_expr[i + 1])
        IN Return([i |-> i + 2, heap |-> r.heap, stack |-> Append(stack, r.nfa)])
    ELSE IF symb \in {STAR, PLUS, QMARK} THEN
        IF stack = <<>> THEN Raise("IndexError")
        ELSE LET r == CASE symb = STAR -> closure(heap, Top(stack))
                        [] symb = PLUS -> one_or_more(heap, Top(stack))
                        [] symb = QMARK -> zero_or_one(heap, Top(stack))
             IN Return([i |-> i + 1, heap |-> r.heap, stack |-> Append(Pop(stack), r.nfa)])
    ELSE IF symb \in {PIPE, DOT} THEN
        IF Len(stack) < 2 THEN Raise("IndexError")
        ELSE LET right == Top(stack)
                 left == Top(Pop(stack))
                 r == IF symb = PIPE THEN union(heap, left, right)
                      ELSE concatenate(heap, left, right)
             IN Return([i |-> i + 1, heap |-> r.heap,
                        stack |-> Append(Pop(Pop(stack)), r.nfa)])
    ELSE LET r == from_symbol(heap, symb)
         IN Return([i |-> i + 1, heap |-> r.heap, stack |-> Append(stack, r.nfa)])

\* the while loop of from_posfix
RECURSIVE from_posfix_loop(_, _, _, _)
from_posfix_loop(posfix_expr, i, heap, stack) ==
    IF i > Len(posfix_expr) THEN Return([heap |-> heap, stack |-> stack])
    ELSE LET r == from_posfix_step(posfix_expr, i, heap, stack)
         IN IF r.exc # "none" THEN r
            ELSE from_posfix_loop(posfix_expr, r.val.i, r.val.heap, r.val.stack)

\* from_posfix: the arena and the fragment returned, or sys.exit(64)
from_posfix(posfix_expr) ==
    IF posfix_expr = <<>> THEN Return(from_epsilon(<<>>))
    ELSE LET r == from_posfix_loop(posfix_expr, 1, <<>>, <<>>)
         IN IF r.exc # "none" THEN Raise("SystemExit")
            ELSE Return([heap |-> r.val.heap, nfa |-> Top(r.val.stack)])

\* Regex.__init__: the compiled automaton, or the exception that ended it
Regex(pattern) ==
    LET tokens == pre_process(pattern)
    IN IF tokens.exc # "none" THEN tokens
       ELSE LET posfix_expr == to_posfix(tokens.val)
            IN IF posfix_expr.exc # "none" THEN posfix_expr
               ELSE from_posfix(posfix_expr.val)

(* ---------------- simulation ---------------- *)

\* list(states): some order of the set
RECURSIVE list(_)
list(S) == IF S = {} THEN <<>>
           ELSE LET x == CHOOSE y \in S : TRUE IN <<x>> \o list(S \ {x})

\* the for loop without the test "if s not in closure"
visit_epsilon_unchecked(eps, k, stack, closure_set) ==
    [stack |-> stack \o eps, closure |-> closure_set \cup {eps[j] : j \in DOMAIN eps}]

\* for s in state.epsilon_transitions: if s not in closure: add and push
RECURSIVE visit_epsilon(_, _, _, _)
visit_epsilon(eps, k, stack, closure_set) ==
    IF k > Len(eps) THEN [stack |-> stack, closure |-> closure_set]
    ELSE IF eps[k] \notin closure_set
         THEN visit_epsilon(eps, k + 1, Append(stack, eps[k]), closure_set \cup {eps[k]})
         ELSE visit_epsilon(eps, k + 1, stack, closure_set)

\* while stack: state = stack.pop(); ...
RECURSIVE closure_loop(_, _, _)
closure_loop(heap, stack, closure_set) ==
    IF stack = <<>> THEN closure_set
    ELSE LET state == Top(stack)
             r == visit_epsilon(heap[state].epsilon_transitions, 1, Pop(stack), closure_set)
         IN closure_loop(heap, r.stack, r.closure)

_get_epsilon_closure(heap, states) == closure_loop(heap, list(states), states)

\* the states reached from current_states on symbol
step(heap, current_states, symbol) ==
    {heap[state].transition[symbol] :
        state \in {s \in current_states : symbol \in DOMAIN heap[s].transition}}

any_accept(heap, states) == \E s \in states : heap[s].accept

None == [string |-> <<>>, start |-> -1, end |-> -1]
Match(string, start, end) == [string |-> string, start |-> start, end |-> end]

RECURSIVE match_loop(_, _, _, _)
match_loop(heap, word, k, current_states) ==
    IF k > Len(word)
    THEN IF any_accept(heap, current_states) THEN Match(word, 0, Len(word)) ELSE None
    ELSE LET next_states_from_transitions == step(heap, current_states, word[k])
         IN IF next_states_from_transitions = {} THEN None
            ELSE match_loop(heap, word, k + 1,
                            _get_epsilon_closure(heap, next_states_from_transitions))

match(heap, nfa, word) ==
    match_loop(heap, word, 1, _get_epsilon_closure(heap, {nfa.start}))

\* the while loop of _find_all_matches; pos is the Python position
RECURSIVE find_loop(_, _, _, _, _, _)
find_loop(heap, word, start_pos, pos, current_states, matches) ==
    IF ~(pos < Len(word)) THEN matches
    ELSE LET next_states == step(heap, current_states, word[pos + 1])
         IN IF next_states = {} THEN matches
            ELSE LET cur == _get_epsilon_closure(heap, next_states)
                 IN find_loop(heap, word, start_pos, pos + 1, cur,
                        IF any_accept(heap, cur)
                        THEN Append(matches, Match(word, start_pos, pos + 1))
                        ELSE matches)

_find_all_matches(heap, nfa, word, start_pos) ==
    LET current_states == _get_epsilon_closure(heap, {nfa.start})
    IN find_loop(heap, word, start_pos, start_pos, current_states,
                 IF any_accept(heap, current_states)
                 THEN <<Match(word, start_pos, start_pos)>> ELSE <<>>)

\* the first match recorded instead of the longest
max_match_first(matches) == matches[1]

\* max(matches, key=lambda m: m.end - m.start): the first of the longest
max_match(matches) ==
    LET k == CHOOSE i \in 1 .. Len(matches) :
                 /\ \A j \in 1 .. Len(matches) :
                        matches[j].end - matches[j].start <= matches[i].end - matches[i].start
                 /\ \A j \in 1 .. (i - 1) :
                        matches[j].end - matches[j].start < matches[i].end - matches[i].start
    IN matches[k]

\* for start_pos in range(len(word))
RECURSIVE search_loop(_, _, _, _)
search_loop(heap, nfa, word, start_pos) ==
    IF ~(start_pos < Len(word)) THEN None
    ELSE LET matches == _find_all_matches(heap, nfa, word, start_pos)
         IN IF matches # <<>> THEN max_match(matches)
            ELSE search_loop(heap, nfa, word, start_pos + 1)

search(heap, nfa, word) ==
    IF word = <<>>
    THEN IF any_accept(heap, _get_epsilon_closure(heap, {nfa.start}))
         THEN Match(word, 0, 0) ELSE None
    ELSE search_loop(heap, nfa, word, 0)

(* ---------------- the program as a state machine ---------------- *)

VARIABLES pattern, word, pc, status, heap, nfa, op, result,
          posfix_expr, posfix_i, stack,
          states, eps_stack, eps_closure, pushed

\* posfix_expr, posfix_i and stack are the argument and the locals
\* posfix_expr, i and stack of from_posfix while it runs; states is the argument of _get_epsilon_closure, eps_stack
\* and eps_closure are its locals stack and closure, and pushed records
\* every state that has been put on eps_stack since the call
builder == <<posfix_expr, posfix_i, stack>>
walker == <<states, eps_stack, eps_closure, pushed>>

vars == <<pattern, word, pc, status, heap, nfa, op, result, builder, walker>>

\* Strings over alphabet S of length at most n
Strings(S, n) == UNION {[1 .. k -> S] : k \in 0 .. n}

\* the state before Regex(pattern) is called on the inputs drawn
Start(patterns, words) ==
    /\ pattern \in patterns
    /\ word \in words
    /\ pc = "new"
    /\ status = 0
    /\ heap = <<>>
    /\ nfa = NFA(0, 0)
    /\ op = "none"
    /\ result = None
    /\ posfix_expr = <<>>
    /\ posfix_i = 1
    /\ stack = <<>>
    /\ states = {}
    /\ eps_stack = <<>>
    /\ eps_closure = {}
    /\ pushed = <<>>

\* Regex.__init__(pattern): keeps the automaton, or the process ends in
\* sys.exit(64), or an exception leaves the constructor
Compile ==
    /\ pc = "new"
    /\ LET r == Regex(pattern)
       IN IF r.exc = "none"
          THEN pc' = "compiled" /\ heap' = r.val.heap /\ nfa' = r.val.nfa /\ status' = status
          ELSE IF r.exc = "SystemExit"
          THEN pc' = "exited" /\ status' = 64 /\ UNCHANGED <<heap, nfa>>
          ELSE pc' = "raised" /\ UNCHANGED <<heap, nfa, status>>
    /\ UNCHANGED <<pattern, word, op, result, builder, walker>>

\* rgx.match(word)
CallMatch ==
    /\ pc = "compiled"
    /\ op' = "match"
    /\ result' = match(heap, nfa, word)
    /\ UNCHANGED <<pattern, word, pc, status, heap, nfa, builder, walker>>

\* rgx.search(word)
CallSearch ==
    /\ pc = "compiled"
    /\ op' = "search"
    /\ result' = search(heap, nfa, word)
    /\ UNCHANGED <<pattern, word, pc, status, heap, nfa, builder, walker>>

Next == Compile \/ CallMatch \/ CallSearch

(* ---------------- Regex.__init__ step by step ---------------- *)

\* RegexParser.to_posfix(RegexParser.pre_process(pattern)) and the entry
\* into NFA.from_posfix; the sys.exit(64) of to_posfix ends the process,
\* any other exception of the parser leaves the constructor
Parse ==
    /\ pc = "new"
    /\ LET tokens == pre_process(pattern)
           r == IF tokens.exc # "none" THEN tokens ELSE to_posfix(tokens.val)
       IN IF r.exc = "none"
          THEN pc' = "from_posfix" /\ posfix_expr' = r.val /\ status' = status
          ELSE IF r.exc = "SystemExit"
          THEN pc' = "exited" /\ status' = 64 /\ UNCHANGED posfix_expr
          ELSE pc' = "raised" /\ UNCHANGED <<posfix_expr, status>>
    /\ UNCHANGED <<pattern, word, heap, nfa, op, result, posfix_i, stack, walker>>

\* if(posfix_expr == ''): return NFA.from_epsilon()
BuildEmpty ==
    /\ pc = "from_posfix"
    /\ posfix_expr = <<>>
    /\ LET r == from_epsilon(heap)
       IN heap' = r.heap /\ nfa' = r.nfa
    /\ pc' = "compiled"
    /\ UNCHANGED <<pattern, word, status, op, result, builder, walker>>

\* one iteration of the while loop; an IndexError ends the process in
\* sys.exit(64)
BuildStep ==
    /\ pc = "from_posfix"
    /\ posfix_expr # <<>>
    /\ posfix_i <= Len(posfix_expr)
    /\ LET r == from_posfix_step(posfix_expr, posfix_i, heap, stack)
       IN IF r.exc = "none"
          THEN /\ posfix_i' = r.val.i /\ heap' = r.val.heap /\ stack' = r.val.stack
               /\ UNCHANGED <<pc, status>>
          ELSE /\ pc' = "exited" /\ status' = 64
               /\ UNCHANGED <<posfix_i, heap, stack>>
    /\ UNCHANGED <<pattern, word, nfa, op, result, posfix_expr, walker>>

\* else: return stack.pop()
BuildReturn ==
    /\ pc = "from_posfix"
    /\ posfix_expr # <<>>
    /\ posfix_i > Len(posfix_expr)
    /\ IF stack = <<>>
       THEN pc' = "raised" /\ UNCHANGED <<nfa, stack>>
       ELSE pc' = "compiled" /\ nfa' = Top(stack) /\ stack' = Pop(stack)
    /\ UNCHANGED <<pattern, word, status, heap, op, result, posfix_expr, posfix_i, walker>>

NextBuild == Parse \/ BuildEmpty \/ BuildStep \/ BuildReturn

(* ---------------- _get_epsilon_closure step by step ---------------- *)

\* the lists list(states) can be: a set is iterated in no fixed order
Orders(S) ==
    {l \in [1 .. Cardinality(S) -> S] : \A j, k \in DOMAIN l : l[j] = l[k] => j = k}

\* self._get_epsilon_closure(states) up to the while loop:
\* stack = list(states); closure = set(states)
CallClosure(seeds) ==
    /\ pc = "compiled"
    /\ \E S \in seeds : \E l \in Orders(S) :
          /\ states' = S
          /\ eps_stack' = l
          /\ eps_closure' = S
          /\ pushed' = l
    /\ pc' = "_get_epsilon_closure"
    /\ UNCHANGED <<pattern, word, status, heap, nfa, op, result, builder>>

\* one iteration of "while stack": state = stack.pop() and the for loop
\* over state.epsilon_transitions
ClosureStep ==
    /\ pc = "_get_epsilon_closure"
    /\ eps_stack # <<>>
    /\ LET state == Top(eps_stack)
           r == visit_epsilon(heap[state].epsilon_transitions, 1, Pop(eps_stack), eps_closure)
       IN /\ eps_stack' = r.stack
          /\ eps_closure' = r.closure
          /\ pushed' = pushed \o SubSeq(r.stack, Len(eps_stack), Len(r.stack))
    /\ UNCHANGED <<pattern, word, pc, status, heap, nfa, op, result, builder, states>>

\* the stack is empty: return closure
ClosureReturn ==
    /\ pc = "_get_epsilon_closure"
    /\ eps_stack = <<>>
    /\ pc' = "closed"
    /\ UNCHANGED <<pattern, word, status, heap, nfa, op, result, builder, walker>>

(* ---------------- the language a pattern denotes ---------------- *)
(* A reference that does not go through tokens, postfix or automata: the   *)
(* pattern is read by its grammar                                          *)
(*     E ::= T | T '|' E      T ::= F | F T      F ::= A | F q             *)
(*     A ::= literal | '(' ')' | '(' E ')'       q ::= '*' | '+' | '?'     *)
(* and a word is matched by trying every way of splitting it.              *)

Literals == {CH_a, CH_b}
Quantifiers == {STAR, PLUS, QMARK}

\* the nesting depth of parentheses after the first k characters of p
RECURSIVE Depth(_, _)
Depth(p, k) ==
    IF k = 0 THEN 0
    ELSE Depth(p, k - 1) + (IF p[k] = LPAREN THEN 1 ELSE IF p[k] = RPAREN THEN -1 ELSE 0)

\* the position of the first '|' outside every group, 0 if there is none
TopPipe(p) ==
    LET ks == {k \in 1 .. Len(p) : p[k] = PIPE /\ Depth(p, k) = 0}
    IN IF ks = {} THEN 0 ELSE CHOOSE k \in ks : \A j \in ks : k <= j

\* the position of the ')' closing the '(' at position 1, 0 if there is none
CloseOf(p) ==
    LET ks == {k \in 2 .. Len(p) : p[k] = RPAREN /\ Depth(p, k) = 0}
    IN IF ks = {} THEN 0 ELSE CHOOSE k \in ks : \A j \in ks : k <= j

\* the end of the atom p starts with, 0 if p does not start with an atom
AtomEnd(p) ==
    IF p = <<>> THEN 0
    ELSE IF p[1] \in Literals THEN 1
    ELSE IF p[1] = LPAREN THEN CloseOf(p)
    ELSE 0

\* the end of the run of quantifiers that follows position k
RECURSIVE QuantEnd(_, _)
QuantEnd(p, k) ==
    IF k < Len(p) /\ p[k + 1] \in Quantifiers THEN QuantEnd(p, k + 1) ELSE k

Slice(p, i, j) == SubSeq(p, i, j)

RECURSIVE WellFormedE(_)
RECURSIVE WellFormedT(_)
WellFormedE(p) ==
    LET k == TopPipe(p)
    IN IF k = 0 THEN WellFormedT(p)
       ELSE WellFormedT(Slice(p, 1, k - 1)) /\ WellFormedE(Slice(p, k + 1, Len(p)))

WellFormedT(t) ==
    LET a == AtomEnd(t)
        e == QuantEnd(t, a)
    IN /\ a > 0
       /\ t[1] = LPAREN => (a = 2 \/ WellFormedE(Slice(t, 2, a - 1)))
       /\ e = Len(t) \/ WellFormedT(Slice(t, e + 1, Len(t)))

\* the patterns of the grammar; the empty pattern denotes the empty word
WellFormed(p) == p = <<>> \/ WellFormedE(p)

RECURSIVE RefE(_, _)
RECURSIVE RefT(_, _)
RECURSIVE RefF(_, _)
RefE(p, w) ==
    LET k == TopPipe(p)
    IN IF k = 0 THEN RefT(p, w)
       ELSE RefT(Slice(p, 1, k - 1), w) \/ RefE(Slice(p, k + 1, Len(p)), w)

RefT(t, w) ==
    IF t = <<>> THEN w = <<>>
    ELSE LET e == QuantEnd(t, AtomEnd(t))
         IN \E k \in 0 .. Len(w) :
                /\ RefF(Slice(t, 1, e), Slice(w, 1, k))
                /\ RefT(Slice(t, e + 1, Len(t)), Slice(w, k + 1, Len(w)))

RefF(f, u) ==
    LET q == f[Len(f)]
        g == Slice(f, 1, Len(f) - 1)
    IN IF Len(f) > 1 /\ q = QMARK THEN u = <<>> \/ RefF(g, u)
       ELSE IF Len(f) > 1 /\ q = STAR THEN
            \/ u = <<>>
            \/ \E k \in 1 .. Len(u) :
                   RefF(g, Slice(u, 1, k)) /\ RefF(f, Slice(u, k + 1, Len(u)))
       ELSE IF Len(f) > 1 /\ q = PLUS THEN
            \/ RefF(g, u)
            \/ \E k \in 1 .. Len(u) :
                   RefF(g, Slice(u, 1, k)) /\ RefF(f, Slice(u, k + 1, Len(u)))
       ELSE IF f[1] = LPAREN THEN RefE(Slice(f, 2, Len(f) - 1), u)
       ELSE u = f

\* whether word w is in the language of the well-formed pattern p
InLanguage(p, w) == RefE(p, w)

(* ---------------- specifications ---------------- *)

MaxPatLen == 4
MaxWordLen == 3

CoreAlphabet == Literals \cup {LPAREN, RPAREN, PIPE} \cup Quantifiers

CorePatterns == {p \in Strings(CoreAlphabet, MaxPatLen) : WellFormed(p)}

\* well-formed patterns over literals, grouping, union and quantifiers
InitCore == Start(CorePatterns, Strings(Literals, MaxWordLen))
SpecCore == InitCore /\ [][Next]_vars

(* ---------------- C1 ---------------- *)

\* C1: for every well-formed pattern over literals, grouping, |, *, +, ?
\* that compiles and every word, match returns a Match exactly when the
\* reference finds the whole word in the pattern's language, that Match
\* spans (0, len(word)) of the word, and otherwise match returns None.
C1_MatchIsLanguage ==
    (pc = "compiled" /\ op = "match") =>
        /\ InLanguage(pattern, word) => result = Match(word, 0, Len(word))
        /\ ~InLanguage(pattern, word) => result = None

\* a repetition inside a union accepted a word of two letters
C1_Witness ==
    /\ pc = "compiled" /\ op = "match"
    /\ pattern = <<CH_a, PIPE, CH_b, PLUS>>
    /\ word = <<CH_b, CH_b>>
    /\ result = Match(word, 0, 2)

(* ---------------- C2 ---------------- *)

MaxSearchPatLen == 4
MaxSearchWordLen == 3

SearchPatterns ==
    {p \in Strings({CH_a, CH_b, LPAREN, RPAREN, PIPE, STAR}, MaxSearchPatLen) : WellFormed(p)}

\* the words of the search runs: the letters of the patterns and one other
InitSearch == Start(SearchPatterns, Strings({CH_a, CH_b, CH_x}, MaxSearchWordLen))
SpecSearch == InitSearch /\ [][Next]_vars

\* the spans [p, q) of w whose substring is in the language of pat
Occurrences(pat, w) ==
    {s \in (0 .. Len(w)) \X (0 .. Len(w)) :
        s[1] <= s[2] /\ InLanguage(pat, Slice(w, s[1] + 1, s[2]))}

\* C2: search returns None iff no substring of the word, the empty one
\* included, is in the pattern's language; otherwise it returns the span
\* [p, q) with p the smallest start of an occurrence and q the largest end
\* of an occurrence starting at p.
C2_SearchLeftmostLongest ==
    (pc = "compiled" /\ op = "search") =>
        LET occ == Occurrences(pattern, word)
        IN IF occ = {} THEN result = None
           ELSE /\ result # None
                /\ result.string = word
                /\ <<result.start, result.end>> \in occ
                /\ \A s \in occ : result.start <= s[1]
                /\ \A s \in occ : s[1] = result.start => s[2] <= result.end

\* a shorter occurrence at the same start and a later, longer one both lose
C2_Witness ==
    /\ pc = "compiled" /\ op = "search"
    /\ pattern = <<CH_a, CH_b, STAR>>
    /\ word = <<CH_x, CH_a, CH_b>>
    /\ result = Match(word, 1, 3)

(* ---------------- C10 ---------------- *)

MaxPolicyWordLen == 4

\* the two orders of the alternatives a and ab
PolicyPatterns == {<<CH_a, PIPE, CH_a, CH_b>>, <<CH_a, CH_b, PIPE, CH_a>>}

InitPolicy == Start(PolicyPatterns, Strings({CH_a, CH_b, CH_x, CH_y}, MaxPolicyWordLen))
SpecPolicy == InitPolicy /\ [][Next]_vars

\* C10 as stated: Regex("a|ab").search("xaby") returns the match for a, [1,2).
C10_Original ==
    (pc = "compiled" /\ op = "search"
        /\ pattern = <<CH_a, PIPE, CH_a, CH_b>> /\ word = <<CH_x, CH_a, CH_b, CH_y>>)
    => result = Match(word, 1, 2)

\* C10 amended: Regex("a|ab").search("xaby") returns the longest match at
\* the first matching start position: ab with span [1,3).
C10_LongestAtFirstStart ==
    (pc = "compiled" /\ op = "search"
        /\ pattern = <<CH_a, PIPE, CH_a, CH_b>> /\ word = <<CH_x, CH_a, CH_b, CH_y>>)
    => result = Match(word, 1, 3)

\* search has returned on pattern a|ab and word xaby
C10_Witness ==
    /\ pc = "compiled" /\ op = "search"
    /\ pattern = <<CH_a, PIPE, CH_a, CH_b>>
    /\ word = <<CH_x, CH_a, CH_b, CH_y>>
    /\ result # None

(* ---------------- C3, C4: malformed grouping and operators ---------------- *)

MaxSyntaxLen == 4
MaxSyntaxWordLen == 1

SyntaxAlphabet == CoreAlphabet \cup {RBRACK}

\* every string over the pattern characters, malformed ones included
InitSyntax == Start(Strings(SyntaxAlphabet, MaxSyntaxLen),
                    Strings({CH_a, RBRACK, LPAREN}, MaxSyntaxWordLen))
SpecSyntax == InitSyntax /\ [][Next]_vars

\* the constructor ended in the InvalidPattern outcome: exit status 64, no automaton
InvalidPattern == pc = "exited" /\ status = 64 /\ heap = <<>>

\* some ')' has no '(' before it, or some '(' is never closed
Unbalanced(p) ==
    \/ \E k \in 1 .. Len(p) : Depth(p, k) < 0
    \/ Depth(p, Len(p)) # 0

\* C3: compiling a pattern whose grouping parentheses are unbalanced ends
\* in the InvalidPattern outcome and never yields a compiled automaton.
C3_UnbalancedIsInvalid ==
    (pc # "new" /\ Unbalanced(pattern)) => InvalidPattern

\* a quantifier with nothing before it, or a union with an empty side
LacksOperand(p) ==
    \E k \in 1 .. Len(p) :
        \/ p[k] \in Quantifiers /\ (k = 1 \/ p[k - 1] \in {LPAREN, PIPE})
        \/ p[k] = PIPE /\ (k = 1 \/ p[k - 1] \in {LPAREN, PIPE})
        \/ p[k] = PIPE /\ (k = Len(p) \/ p[k + 1] \in {RPAREN, PIPE})

\* C4: compiling a pattern in which a quantifier has no sub-pattern before
\* it, or a union has an empty left or right alternative, ends in the
\* InvalidPattern outcome and never yields a compiled automaton.
C4_MissingOperandIsInvalid ==
    (pc # "new" /\ LacksOperand(pattern)) => InvalidPattern

(* ---------------- C5: truncated class or escape ---------------- *)

MaxTruncLen == 4
MaxTruncWordLen == 2

InitTrunc == Start(Strings({CH_a, CH_b, LBRACK, RBRACK, BSLASH}, MaxTruncLen),
                   Strings({CH_a, CH_b, BSLASH}, MaxTruncWordLen))
SpecTrunc == InitTrunc /\ [][Next]_vars

\* reading p from position i: a class is left open at the end of p, or p
\* ends with an escape marker that escapes nothing
RECURSIVE Truncated(_, _, _)
Truncated(p, i, inClass) ==
    IF i > Len(p) THEN inClass
    ELSE IF p[i] = BSLASH THEN (i = Len(p) \/ Truncated(p, i + 2, inClass))
    ELSE IF ~inClass /\ p[i] = LBRACK THEN Truncated(p, i + 1, TRUE)
    ELSE IF inClass /\ p[i] = RBRACK THEN Truncated(p, i + 1, FALSE)
    ELSE Truncated(p, i + 1, inClass)

\* C5: compiling a pattern with a class-open that has no class-close, or
\* one that ends with a lone escape marker, ends in the InvalidPattern
\* outcome and produces no automaton.
C5_TruncatedIsInvalid ==
    (pc # "new" /\ Truncated(pattern, 1, FALSE)) => InvalidPattern

(* ---------------- C7: the unescaped dot ---------------- *)

MaxDotLen == 3

InitDot == Start(Strings({CH_a, CH_b, DOT}, MaxDotLen), Strings({CH_a, CH_b, DOT}, MaxDotLen))
SpecDot == InitDot /\ [][Next]_vars

HasChar(p, c) == \E k \in 1 .. Len(p) : p[k] = c

\* C7: a pattern of letters and unescaped dots compiles, and match accepts
\* exactly the word that spells the pattern, the dot standing for itself.
C7_DotIsLiteral ==
    (pc # "new" /\ HasChar(pattern, DOT)) =>
        /\ pc = "compiled"
        /\ op = "match" => (result # None <=> word = pattern)

(* ---------------- C8: character classes ---------------- *)

MaxClassLen == 4
MaxClassWordLen == 2

CH_1 == 49
CH_2 == 50
ClassAlphabet == {CH_0, CH_1, CH_2, MINUS, PLUS}

\* the patterns [body] for every body over digits, the range separator and '+'
InitClass == Start({<<LBRACK>> \o body \o <<RBRACK>> : body \in Strings(ClassAlphabet, MaxClassLen)},
                   Strings(ClassAlphabet, MaxClassWordLen))
SpecClass == InitClass /\ [][Next]_vars

\* the set a class body denotes: each c1-c2 an inclusive range, every
\* other character itself
RECURSIVE EffectiveSet(_)
EffectiveSet(body) ==
    IF body = <<>> THEN {}
    ELSE IF Len(body) >= 3 /\ body[2] = MINUS
         THEN (body[1] .. body[3]) \cup EffectiveSet(Slice(body, 4, Len(body)))
         ELSE {body[1]} \cup EffectiveSet(Tail(body))

\* the tokens ( c1 | c2 | ... ) of a set of characters in ascending order
RECURSIVE Ascending(_)
Ascending(S) ==
    IF S = {} THEN <<>>
    ELSE LET c == CHOOSE x \in S : \A y \in S : x <= y
         IN (IF Cardinality(S) = 1 THEN <<<<c>>>> ELSE <<<<c>>, <<PIPE>>>>) \o Ascending(S \ {c})

ClassTokens(S) == <<<<LPAREN>>>> \o Ascending(S) \o <<<<RPAREN>>>>

ClassBody(p) == Slice(p, 2, Len(p) - 1)

\* [c] for c in body: the list pre_process hands to make_range
Chars(body) == [k \in 1 .. Len(body) |-> <<body[k]>>]

\* C8: the pattern [body] compiles and accepts exactly the one-character
\* words of the body's effective set, whatever characters the set holds,
\* and make_range emits the tokens ( c1 | c2 | ... ) of that set in
\* ascending order (so equal sets give equal token sequences).
C8_ClassIsItsSet ==
    (pc # "new" /\ EffectiveSet(ClassBody(pattern)) # {}) =>
        /\ make_range(Chars(ClassBody(pattern))) = Return(ClassTokens(EffectiveSet(ClassBody(pattern))))
        /\ pc = "compiled"
        /\ op = "match" =>
              (result # None <=> (Len(word) = 1 /\ word[1] \in EffectiveSet(ClassBody(pattern))))

(* ---------------- C6: escaped metacharacters ---------------- *)

MaxEscTokens == 3
MaxEscWordLen == 2

\* the pieces patterns are put together from: a letter, the escape of m,
\* and the unescaped operators and grouping characters
EscTokens(m) == {<<CH_a>>, <<BSLASH, m>>, <<LPAREN>>, <<RPAREN>>, <<PIPE>>, <<STAR>>, <<PLUS>>}

\* the patterns of at most MaxEscTokens pieces that contain the escape of m
EscPatterns(m) ==
    {join(ts) : ts \in {t \in Strings(EscTokens(m), MaxEscTokens) :
                           \E k \in 1 .. Len(t) : t[k] = <<BSLASH, m>>}}

InitEscape == \E m \in MetaChars : Start(EscPatterns(m), Strings({CH_a, m}, MaxEscWordLen))
SpecEscape == InitEscape /\ [][Next]_vars

\* the character escaped in p
EscapedChar(p) == p[1 + CHOOSE k \in 1 .. Len(p) : p[k] = BSLASH /\ \A j \in 1 .. (k - 1) : p[j] # BSLASH]

\* p with every escape pair replaced by the ordinary letter c
RECURSIVE Plain(_)
Plain(p) ==
    IF p = <<>> THEN <<>>
    ELSE IF p[1] = BSLASH /\ Len(p) >= 2 THEN <<CH_c>> \o Plain(Slice(p, 3, Len(p)))
    ELSE <<p[1]>> \o Plain(Tail(p))

\* w with every m replaced by the ordinary letter c
PlainWord(w, m) == [k \in 1 .. Len(w) |-> IF w[k] = m THEN CH_c ELSE w[k]]

Span(r) == <<r.start, r.end>>

\* C6: for every metacharacter m, the pattern \m goes through pre_process
\* and to_posfix as the marked literal SOH m, from_posfix builds from it
\* one two-state fragment with a symbol edge on m, match accepts exactly
\* the word m, and in every context the escape behaves as an ordinary
\* literal does: replacing \m by a letter c in the pattern and m by c in
\* the word changes neither the outcome of compiling nor any result of
\* match or search.  The one context left out is \( beside an unmatched
\* unescaped (, which from_posfix turns into the symbol ( as well, so that
\* the word's ( no longer stands for the escape alone.
C6_EscapedIsLiteral ==
    (pc # "new" /\ HasChar(pattern, BSLASH)
        /\ ~(EscapedChar(pattern) = LPAREN /\ Unbalanced(Plain(pattern)))) =>
        LET m == EscapedChar(pattern)
            r == Regex(Plain(pattern))
            pw == PlainWord(word, m)
        IN /\ (pc = "compiled") = (r.exc = "none")
           /\ (pc = "exited") = (r.exc = "SystemExit")
           /\ op = "match" => Span(result) = Span(match(r.val.heap, r.val.nfa, pw))
           /\ op = "search" => Span(result) = Span(search(r.val.heap, r.val.nfa, pw))
           /\ pattern = <<BSLASH, m>> =>
                /\ pre_process(pattern) = Return(<<<<SOH, m>>>>)
                /\ to_posfix(<<<<SOH, m>>>>) = Return(<<SOH, m>>)
                /\ pc = "compiled"
                /\ heap = <<[accept |-> FALSE, transition |-> [c \in {m} |-> 2],
                             epsilon_transitions |-> <<>>],
                            [accept |-> TRUE, transition |-> <<>>, epsilon_transitions |-> <<>>]>>
                /\ nfa = NFA(1, 2)
                /\ op = "match" => (result # None <=> word = <<m>>)

\* the pattern a\+ has matched the word a+
C6_Witness ==
    /\ pc = "compiled" /\ op = "match"
    /\ pattern = <<CH_a, BSLASH, PLUS>>
    /\ word = <<CH_a, PLUS>>
    /\ result = Match(word, 0, 2)

(* ---------------- C9: quantifier identities ---------------- *)

Optional(x) == <<LPAREN>> \o x \o <<RPAREN, QMARK>>
OneOrMore(x) == <<LPAREN>> \o x \o <<RPAREN, PLUS>>
ThenZeroOrMore(x) == <<LPAREN>> \o x \o <<RPAREN, LPAREN>> \o x \o <<RPAREN, STAR>>

\* match under pattern p succeeds on w
Accepts(p, w) ==
    LET r == Regex(p)
    IN r.exc = "none" /\ match(r.val.heap, r.val.nfa, w) # None

\* C9: for any compilable sub-pattern X (the pattern of the run) and every
\* word, match under (X)? succeeds iff the word is empty or match under X
\* succeeds, and match under (X)+ succeeds iff match under (X)(X)* succeeds.
C9_QuantifierIdentities ==
    (pc = "compiled" /\ op = "match") =>
        /\ Accepts(Optional(pattern), word) <=> (word = <<>> \/ result # None)
        /\ Accepts(OneOrMore(pattern), word) <=> Accepts(ThenZeroOrMore(pattern), word)

\* some group of p is empty
HasEmptyGroup(p) == \E k \in 1 .. (Len(p) - 1) : p[k] = LPAREN /\ p[k + 1] = RPAREN

\* C9, the part that holds: the identities for every X that is not empty
\* and has no empty group.
C9_IdentitiesOfNonEmpty ==
    (pattern # <<>> /\ ~HasEmptyGroup(pattern)) => C9_QuantifierIdentities

(* ---------------- C11: one accepting state per fragment ---------------- *)

MaxBuildLen == 4

BuildAlphabet == {CH_a, BSLASH, LPAREN, RPAREN, PIPE, STAR, PLUS, QMARK}

InitBuild == Start(Strings(BuildAlphabet, MaxBuildLen), {<<>>})
SpecBuild == InitBuild /\ [][NextBuild]_vars

\* the states an edge of s leads to, by a symbol or by epsilon
Successors(h, s) ==
    {h[s].transition[c] : c \in DOMAIN h[s].transition}
        \cup {h[s].epsilon_transitions[k] : k \in DOMAIN h[s].epsilon_transitions}

\* the states reachable from those of seen, of which frontier are the ones
\* whose edges have not been followed yet
RECURSIVE Reach(_, _, _)
Reach(h, frontier, seen) ==
    IF frontier = {} THEN seen
    ELSE LET next == (UNION {Successors(h, s) : s \in frontier}) \ seen
         IN Reach(h, next, seen \cup next)

Reachable(h, s) == Reach(h, {s}, {s})

\* among the states reachable from the start of f the end of f is the only
\* accepting one, and no edge leaves it
OneAcceptingEnd(h, f) ==
    /\ {s \in Reachable(h, f.start) : h[s].accept} = {f.end}
    /\ DOMAIN h[f.end].transition = {}
    /\ h[f.end].epsilon_transitions = <<>>

\* C11: whenever from_posfix is between two iterations of its loop, every
\* fragment on its stack has exactly one accepting state among the states
\* reachable from its start, that state is the fragment's end and has no
\* outgoing symbol or epsilon edge; and the automaton Regex keeps has
\* exactly one accepting state, its end.
C11_OneAcceptingEnd ==
    /\ pc = "from_posfix" =>
            \A k \in 1 .. Len(stack) : OneAcceptingEnd(heap, stack[k])
    /\ pc = "compiled" =>
            /\ OneAcceptingEnd(heap, nfa)
            /\ Cardinality({s \in Reachable(heap, nfa.start) : heap[s].accept}) = 1

\* building a|a*: after the step for * the stack holds the fragment of a
\* and the closure fragment made of the second a
C11_Witness ==
    /\ pc = "from_posfix"
    /\ pattern = <<CH_a, PIPE, CH_a, STAR>>
    /\ posfix_i = 4
    /\ Len(stack) = 2
    /\ Len(heap) = 6
    /\ OneAcceptingEnd(heap, stack[2])

(* ---------------- C12: the epsilon closure ---------------- *)

MaxClosureLen == 3
MaxSeeds == 2

ClosureAlphabet == {CH_a, LPAREN, RPAREN, PIPE, STAR, PLUS}

\* the sets of at most MaxSeeds states of the automaton
Seeds == {S \in SUBSET (1 .. Len(heap)) : Cardinality(S) <= MaxSeeds}

EnterClosure == CallClosure(Seeds)

NextClosure == Compile \/ EnterClosure \/ ClosureStep \/ ClosureReturn

InitClosure == Start(Strings(ClosureAlphabet, MaxClosureLen), {<<>>})

\* the loop of _get_epsilon_closure is sequential code: an iteration that
\* can run does run
SpecClosure ==
    InitClosure /\ [][NextClosure]_vars /\ WF_vars(ClosureStep) /\ WF_vars(ClosureReturn)

\* T contains the target of every epsilon edge that leaves a state of T
EpsilonClosed(h, T) ==
    \A s \in T : \A k \in DOMAIN h[s].epsilon_transitions : h[s].epsilon_transitions[k] \in T

\* T is the smallest superset of S closed under following epsilon edges
SmallestClosed(h, S, T) ==
    /\ S \subseteq T
    /\ EpsilonClosed(h, T)
    /\ \A U \in SUBSET (1 .. Len(h)) : (S \subseteq U /\ EpsilonClosed(h, U)) => T \subseteq U

\* no state occurs twice in l
OnceEach(l) == \A j, k \in DOMAIN l : l[j] = l[k] => j = k

\* a state is on an epsilon cycle of h
OnEpsilonCycle(h, s) ==
    \E T \in SUBSET (1 .. Len(h)) :
        /\ s \in T
        /\ \A t \in T : \E k \in DOMAIN h[t].epsilon_transitions :
               h[t].epsilon_transitions[k] \in T

C12_Running == pc = "_get_epsilon_closure"
C12_Returned == pc = "closed"

\* C12: on every automaton the builder produces and every set S of its
\* states, the call _get_epsilon_closure(S) returns, no state is ever put
\* on its work stack twice, and the set returned is the smallest superset
\* of S closed under following epsilon edges.
C12_ClosureTerminatesExact ==
    /\ [](C12_Running \/ C12_Returned => OnceEach(pushed))
    /\ [](C12_Returned => SmallestClosed(heap, states, eps_closure))
    /\ (C12_Running ~> C12_Returned)

\* the call has returned on the automaton of a** for a seed on one of its
\* epsilon cycles, after following edges to states beyond the seed
C12_Witness ==
    /\ C12_Returned
    /\ pattern = <<CH_a, STAR, STAR>>
    /\ \E s \in states : OnEpsilonCycle(heap, s)
    /\ Cardinality(eps_closure) > Cardinality(states) + 2

(* ---------------- C13: nothing of the pattern is discarded ---------------- *)

MaxDiscardLen == 4

InitDiscard == Start(Strings({CH_a, CH_b, RBRACK, LPAREN, RPAREN, PIPE, STAR}, MaxDiscardLen), {<<>>})
SpecDiscard == InitDiscard /\ [][NextBuild]_vars

\* the characters of the literal tokens of a token list: the marked
\* literals and the tokens that are neither operators nor parentheses
LiteralChars(tokens) ==
    {IF Len(tokens[k]) = 2 THEN tokens[k][2] ELSE tokens[k][1] :
        k \in {j \in DOMAIN tokens :
                  tokens[j] \notin Operators \cup {<<LPAREN>>, <<RPAREN>>}}}

\* the symbols on the edges of the states reachable from the start of f
EdgeSymbols(h, f) == UNION {DOMAIN h[s].transition : s \in Reachable(h, f.start)}

\* C13: when from_posfix has consumed all of a non-empty postfix sequence
\* its stack holds exactly one fragment, and the automaton a pattern
\* compiles to has, reachable from its start, a symbol edge for every
\* literal token of the pattern.
C13_NothingDiscarded ==
    /\ (pc = "from_posfix" /\ posfix_expr # <<>> /\ posfix_i > Len(posfix_expr)) =>
            Len(stack) = 1
    /\ pc = "compiled" =>
            LiteralChars(pre_process(pattern).val) \subseteq EdgeSymbols(heap, nfa)

====
